---------------------------- MODULE Spec2Model ----------------------------
(***************************************************************************)
(* A model of the QUBO / QAOA helper functions of                          *)
(* docs/source/tutorials/QAOA_funcs.py and of QAOA_block of                *)
(* tensorcircuit/templates/blocks.py.                                      *)
(*                                                                         *)
(* Conventions                                                             *)
(*  - Python sequences are TLA+ sequences; Python index i is TLA+ index    *)
(*    i + 1.                                                               *)
(*  - The matrix entries are integers.  Every real number the converter    *)
(*    produces is a multiple of 1/2, and is stored as the integer number   *)
(*    of halves it holds (Fx(q) is the integer q in that unit, Div2(v) is  *)
(*    the division by two of the code).                                    *)
(*  - Each function is called on its own: SpecIsing, SpecLoss, SpecQAOA,   *)
(*    SpecReport and SpecBlock each describe the calls of one component,   *)
(*    the variables of the other components staying idle.                  *)
(***************************************************************************)
EXTENDS Integers, Sequences, FiniteSets

VARIABLES
    Q,          \* QUBO_to_Ising: the argument Q (a sequence of rows)
    pcI,        \* QUBO_to_Ising: "call" before the call, "done" after it
    isingRet,   \* QUBO_to_Ising: the returned (pauli_terms, weights, offset)
    isingErr,   \* QUBO_to_Ising: the exception raised, or NoError
    lossC,      \* Ising_loss: the circuit c (the state it generates)
    lossTerms,  \* Ising_loss: the caller's pauli_terms list
    lossWeights,\* Ising_loss: the caller's weights list
    lossArgs0,  \* Ising_loss: the caller's (c, pauli_terms, weights) at the start
    lossLog,    \* Ising_loss: the values returned so far, in call order
    lossQueries,\* Ising_loss: the expectation_ps queries of the last call
    pcL,        \* Ising_loss: the caller's position
    kBound,     \* whether the global name K is bound to a backend
    qaArgs,     \* QUBO_QAOA: nlayers, iterations, vvag, ncircuits
    pcQ,        \* QUBO_QAOA: "start", "loop", "returned" or "raised"
    qaI,        \* QUBO_QAOA: the loop variable i
    qaParams,   \* QUBO_QAOA: params
    qaOpt,      \* QUBO_QAOA: the optimizer's updates so far and its last result,
                \*            and the loss of the last evaluation
    qaEvals,    \* QUBO_QAOA: the calls of loss_val_grad_jit so far
    qaOut,      \* QUBO_QAOA: the lines printed
    qaErr,      \* QUBO_QAOA: the exception that left the call, or NoError
    qaRet,      \* QUBO_QAOA: the value returned
    rpFn,       \* report: the function called
    rpC,        \* report: the circuit c: _nqubits and what c.probability() returns
    rpQ,        \* report: the matrix Q of the cost reports
    rpFlags,    \* report: the arguments wrap and reverse
    rpSorted,   \* report: sorted_indices (probability) or the sorted items (cost)
    rpOut,      \* report: the lines printed
    rpErr,      \* report: the exception that left the call, or NoError
    rpProbCalls,\* report: the calls of c.probability() so far
    pcR,        \* report: "call" before the call, "done" after it
    blkHeap,    \* QAOA_block: the circuit objects: identity -> gates applied
    blkArgs,    \* QAOA_block: the arguments c (an identity), g, paramzz, paramx
    blkBefore,  \* QAOA_block: the gates of c when the call was made
    blkRet,     \* QAOA_block: the identity of the circuit returned
    pcB         \* QAOA_block: "call" before the call, "done" after it

isingVars == <<Q, pcI, isingRet, isingErr>>
lossVars == <<lossC, lossTerms, lossWeights, lossArgs0, lossLog, lossQueries, pcL>>
qaoaLocals == <<qaArgs, pcQ, qaI, qaParams, qaOpt, qaEvals, qaOut, qaErr, qaRet>>
qaoaVars == <<kBound, qaoaLocals>>
reportVars == <<rpFn, rpC, rpQ, rpFlags, rpSorted, rpOut, rpErr, rpProbCalls, pcR>>
blockVars == <<blkHeap, blkArgs, blkBefore, blkRet, pcB>>
vars == <<isingVars, lossVars, qaoaVars, reportVars, blockVars>>

Idle == "idle"
IdleIsing == Q = <<>> /\ pcI = Idle /\ isingRet = <<>> /\ isingErr = Idle
IdleLoss ==
    /\ lossC = <<>> /\ lossTerms = <<>> /\ lossWeights = <<>> /\ lossArgs0 = <<>>
    /\ lossLog = <<>> /\ lossQueries = <<>> /\ pcL = Idle
IdleQaoa ==
    /\ kBound = TRUE /\ qaArgs = <<>> /\ pcQ = Idle /\ qaI = 0 /\ qaParams = <<>>
    /\ qaOpt = <<>> /\ qaEvals = 0 /\ qaOut = <<>> /\ qaErr = Idle /\ qaRet = <<>>
IdleReport ==
    /\ rpFn = Idle /\ rpC = <<>> /\ rpQ = <<>> /\ rpFlags = <<>> /\ rpSorted = <<>>
    /\ rpOut = <<>> /\ rpErr = Idle /\ rpProbCalls = 0 /\ pcR = Idle
IdleBlock ==
    blkHeap = <<>> /\ blkArgs = <<>> /\ blkBefore = <<>> /\ blkRet = 0 /\ pcB = Idle

NoError == "none"
NoResult == [pauli_terms |-> <<>>, weights |-> <<>>, offset |-> 0, set |-> FALSE]

(***************************************************************************)
(* Bounds and input sets                                                   *)
(***************************************************************************)
MaxN == 3
QVals == {-1, 0, 2}

(***************************************************************************)
(* Arithmetic helpers                                                      *)
(***************************************************************************)
RECURSIVE SumSeq(_)
SumSeq(s) == IF s = <<>> THEN 0 ELSE s[1] + SumSeq(Tail(s))

\* an integer, in halves
Fx(q) == 2 * q
\* "/ 2" on a number held in halves
Div2(v) == v \div 2

(***************************************************************************)
(* The input matrices: n-by-n symmetric, n-by-n upper triangular, and      *)
(* r-by-c with r # c (numpy 2-d arrays with at least one row and column).  *)
(***************************************************************************)
UpperPairs(n) == {p \in (1..n) \X (1..n) : p[1] <= p[2]}

SymmetricQ(n, u) ==
    [i \in 1..n |-> [j \in 1..n |-> IF i <= j THEN u[<<i, j>>] ELSE u[<<j, i>>]]]

UpperTriQ(n, u) ==
    [i \in 1..n |-> [j \in 1..n |-> IF i <= j THEN u[<<i, j>>] ELSE 0]]

NonSquareQ(r, row) == [i \in 1..r |-> row]

IsSymmetric(M) ==
    /\ Len(M) = Len(M[1])
    /\ \A i, j \in 1..Len(M) : M[i][j] = M[j][i]

(***************************************************************************)
(* QUBO_to_Ising                                                           *)
(***************************************************************************)
\* Q.shape[0]
Shape0(M) == Len(M)

\* Q[0].shape[0] != n
NotSquareTallOnly(M) == Len(M[1]) < Shape0(M)
NotSquare(M) == Len(M[1]) # Shape0(M)

\* np.triu(Q, 0).sum() / 2
OffsetNoHalving(M) ==
    Fx(SumSeq([i \in 1..Len(M) |->
           SumSeq([j \in 1..Len(M[i]) |-> IF j >= i THEN M[i][j] ELSE 0])]))
Offset(M) ==
    Div2(Fx(SumSeq([i \in 1..Len(M) |->
           SumSeq([j \in 1..Len(M[i]) |-> IF j >= i THEN M[i][j] ELSE 0])])))

\* -np.sum(Q, axis=1) / 2
SingleWeightsColumnSum(M) ==
    [i \in 1..Len(M) |->
        Div2(Fx(-SumSeq([r \in 1..Len(M) |-> M[r][i]])))]
SingleWeights(M) == [i \in 1..Len(M) |-> Div2(Fx(-SumSeq(M[i])))]

\* np.zeros(n); term[i] = 1            (i is the Python index)
SingleTerm(n, i) == [l \in 1..n |-> IF l = i + 1 THEN 1 ELSE 0]
\* np.zeros(n); term[i] = 1; term[j] = 1
PairTerm(n, i, j) == [l \in 1..n |-> IF l = i + 1 \/ l = j + 1 THEN 1 ELSE 0]

\* for i in range(n): pauli_terms.append(term)
RECURSIVE SingleLoop(_, _)
SingleLoop(n, i) ==
    IF i >= n THEN <<>> ELSE <<SingleTerm(n, i)>> \o SingleLoop(n, i + 1)

\* for i in range(n - 1): for j in range(i + 1, n): append term and weight.
\* The result is the sequence of (term, weight) appended from (i, j) on.
RECURSIVE PairLoop(_, _, _)
PairLoop(M, i, j) ==
    LET n == Shape0(M) IN
    IF i >= n - 1 THEN <<>>
    ELSE IF j >= n THEN PairLoop(M, i + 1, i + 2)
    ELSE <<[term |-> PairTerm(n, i, j), weight |-> Div2(Fx(M[i + 1][j + 1]))]>>
         \o PairLoop(M, i, j + 1)

IsingOf(M) ==
    LET n == Shape0(M)
        pairs == PairLoop(M, 0, 1)
    IN [pauli_terms |-> SingleLoop(n, 0) \o [k \in 1..Len(pairs) |-> pairs[k].term],
        weights |-> SingleWeights(M) \o [k \in 1..Len(pairs) |-> pairs[k].weight],
        offset |-> Offset(M),
        set |-> TRUE]

QUBO_to_Ising ==
    /\ pcI = "call"
    /\ pcI' = "done"
    /\ IF NotSquare(Q)
       THEN /\ isingErr' = "ValueError"
            /\ isingRet' = isingRet
       ELSE /\ isingErr' = isingErr
            /\ isingRet' = IsingOf(Q)
    /\ UNCHANGED <<Q, lossVars, qaoaVars, reportVars, blockVars>>

\* (spec SpecIsing) one call of QUBO_to_Ising on a matrix of MaxN rows at most
InitIsing ==
    /\ \/ \E n \in 1..MaxN : \E u \in [UpperPairs(n) -> QVals] :
            Q \in {SymmetricQ(n, u), UpperTriQ(n, u)}
       \/ \E r \in 1..MaxN : \E c \in (1..MaxN) \ {r} : \E row \in [1..c -> QVals] :
            Q = NonSquareQ(r, row)
    /\ pcI = "call"
    /\ isingRet = NoResult
    /\ isingErr = NoError
    /\ IdleLoss /\ IdleQaoa /\ IdleReport /\ IdleBlock

NextIsing == QUBO_to_Ising

SpecIsing == InitIsing /\ [][NextIsing]_vars

(***************************************************************************)
(* Classical evaluation of an Ising Hamiltonian and of the quadratic form  *)
(***************************************************************************)
BitVectors(n) == [1..n -> {0, 1}]

\* the product of z_l = 1 - 2 * x_l over the qubits marked in the term
RECURSIVE TermZFrom(_, _, _)
TermZFrom(term, x, l) ==
    IF l > Len(term) THEN 1
    ELSE (IF term[l] = 1 THEN 1 - 2 * x[l] ELSE 1) * TermZFrom(term, x, l + 1)
TermZ(term, x) == TermZFrom(term, x, 1)

\* np.dot(x, np.dot(Q, x))
QuadForm(M, x) ==
    SumSeq([i \in 1..Len(M) |->
        x[i] * SumSeq([j \in 1..Len(M[i]) |-> M[i][j] * x[j]])])

IsingEnergy(ret, x) ==
    ret.offset
    + SumSeq([k \in 1..Len(ret.pauli_terms) |->
                 ret.weights[k] * TermZ(ret.pauli_terms[k], x)])

(***************************************************************************)
(* C1: for a symmetric Q and every bit vector x, offset + sum_k            *)
(* weights[k] * term_k(x), each term evaluated as the product of           *)
(* z_i = 1 - 2 x_i over its marked qubits, equals x^T Q x.  (Both sides    *)
(* are compared in halves.)                                                *)
(***************************************************************************)
C1_IsingReproducesQuadraticForm ==
    (pcI = "done" /\ isingRet.set /\ IsSymmetric(Q)) =>
        \A x \in BitVectors(Len(Q)) :
            IsingEnergy(isingRet, x) = 2 * QuadForm(Q, x)

C1_Witness ==
    /\ pcI = "done"
    /\ isingRet.set
    /\ IsSymmetric(Q)
    /\ Len(Q) = 3
    /\ Q[1][2] # 0 /\ Q[2][3] # 0 /\ Q[1][1] # 0
    /\ isingRet.offset # 0

(***************************************************************************)
(* C2: for a square n-by-n Q the result has n(n+1)/2 terms and as many     *)
(* weights; term i (i < n) marks qubit i only and has weight               *)
(* -sum(Q[i,:])/2; the pairs i < j follow in row-major order with weight   *)
(* Q[i][j]/2; every term has one or two entries equal to 1.                *)
(***************************************************************************)
\* the (TLA+) position of the pair (i, j), i < j Python indices
PairPosition(n, i, j) == n + (i * n - (i * (i + 1)) \div 2) + (j - i - 1) + 1

C2_TermsAndWeightsAligned ==
    (pcI = "done" /\ Len(Q[1]) = Len(Q)) =>
        LET n == Len(Q)
            terms == isingRet.pauli_terms
            w == isingRet.weights
        IN /\ isingErr = NoError
           /\ Len(terms) = (n * (n + 1)) \div 2
           /\ Len(w) = Len(terms)
           /\ \A i \in 0..(n - 1) :
                /\ terms[i + 1] = [l \in 1..n |-> IF l = i + 1 THEN 1 ELSE 0]
                /\ w[i + 1] = -SumSeq(Q[i + 1])
           /\ \A i \in 0..(n - 1) : \A j \in (i + 1)..(n - 1) :
                /\ terms[PairPosition(n, i, j)] =
                       [l \in 1..n |-> IF l \in {i + 1, j + 1} THEN 1 ELSE 0]
                /\ w[PairPosition(n, i, j)] = Q[i + 1][j + 1]
           /\ \A k \in 1..Len(terms) :
                /\ Len(terms[k]) = n
                /\ \A l \in 1..n : terms[k][l] \in {0, 1}
                /\ Cardinality({l \in 1..n : terms[k][l] = 1}) \in {1, 2}

C2_Witness ==
    /\ pcI = "done"
    /\ Len(Q) = 3 /\ Len(Q[1]) = 3
    /\ ~IsSymmetric(Q)
    /\ Len(isingRet.pauli_terms) = 6
    /\ isingRet.weights[5] # isingRet.weights[6]

(***************************************************************************)
(* C6: on a Q that is not square QUBO_to_Ising raises ValueError and       *)
(* returns nothing: no term, weight or offset is produced.                 *)
(***************************************************************************)
C6_NonSquareRaisesEagerly ==
    (pcI = "done" /\ Len(Q[1]) # Len(Q)) =>
        /\ isingErr = "ValueError"
        /\ isingRet = NoResult

C6_Witness ==
    /\ pcI = "done"
    /\ Len(Q) = 2 /\ Len(Q[1]) = 3
    /\ isingErr = "ValueError"

(***************************************************************************)
(* Ising_loss                                                              *)
(*                                                                         *)
(* A circuit is known to Ising_loss only through c.expectation_ps(z=...).  *)
(* The circuit's state is modelled by the measurement distribution it      *)
(* generates: a non-empty set of basis states, each equally likely (a      *)
(* basis state, or an equal superposition of several).  Expectations are   *)
(* held in units of 1 / ExpDen(c).                                         *)
(***************************************************************************)
MaxLossQubits == 2
MaxTerms == 2
WVals == {-1, 3}

\* the Pauli terms over n qubits with one or two marked qubits
LossTermSet(n) ==
    {t \in [1..n -> {0, 1}] : Cardinality({l \in 1..n : t[l] = 1}) \in {1, 2}}

\* basis states, and the equal superposition of all-zero and all-one
LossCircuits(n) ==
    {[nqubits |-> n, support |-> {x}] : x \in BitVectors(n)}
    \cup {[nqubits |-> n,
           support |-> {[l \in 1..n |-> 0], [l \in 1..n |-> 1]}]}

ExpDen(c) == Cardinality(c.support)

RECURSIVE SumOver(_, _)
SumOver(S, f) ==
    IF S = {} THEN 0
    ELSE LET e == CHOOSE e \in S : TRUE IN f[e] + SumOver(S \ {e}, f)

RECURSIVE ZProduct(_, _)
ZProduct(x, zs) ==
    IF zs = <<>> THEN 1 ELSE (1 - 2 * x[zs[1] + 1]) * ZProduct(x, Tail(zs))

\* c.expectation_ps(z=zs): zs is a list of (Python) qubit indices
ExpectationPs(c, zs) ==
    SumOver(c.support, [x \in c.support |-> ZProduct(x, zs)])

\* for l in range(len(term)): if term[l] == 1: index_of_ones.append(l)
RECURSIVE IndexOfOnes(_, _)
IndexOfOnes(term, l) ==
    IF l >= Len(term) THEN <<>>
    ELSE (IF term[l + 1] = 1 THEN <<l>> ELSE <<>>) \o IndexOfOnes(term, l + 1)

\* the z argument of the query made for a term
QueryOf(term) ==
    LET index_of_ones == IndexOfOnes(term, 0) IN
    IF Len(index_of_ones) = 1
    THEN <<index_of_ones[1]>>
    ELSE <<index_of_ones[1], index_of_ones[2]>>

\* delta_loss = weights[k] * c.expectation_ps(z=...)
DeltaLoss(c, terms, weights, k) ==
    weights[k + 1] * ExpectationPs(c, QueryOf(terms[k + 1]))

\* loss += delta_loss
AccumulateOverwrite(loss, delta_loss) == delta_loss
Accumulate(loss, delta_loss) == loss + delta_loss

\* for k in range(len(pauli_terms)): ... ; from iteration k on, with the loss so far
RECURSIVE IsingLossLoop(_, _, _, _, _)
IsingLossLoop(c, terms, weights, k, loss) ==
    IF k >= Len(terms) THEN loss
    ELSE IsingLossLoop(c, terms, weights, k + 1,
                       Accumulate(loss, DeltaLoss(c, terms, weights, k)))

\* the value returned: np.real(loss), loss = 0.0 at first
IsingLossValue(c, terms, weights) == IsingLossLoop(c, terms, weights, 0, 0)

\* the queries a call makes, in order
IsingLossQueries(terms) == [k \in 1..Len(terms) |-> QueryOf(terms[k])]

Ising_loss ==
    /\ pcL \in {"first", "second"}
    /\ lossLog' = Append(lossLog, IsingLossValue(lossC, lossTerms, lossWeights))
    /\ lossQueries' = IsingLossQueries(lossTerms)
    /\ pcL' = IF pcL = "first" THEN "reorder" ELSE "done"
    /\ UNCHANGED <<lossC, lossTerms, lossWeights, lossArgs0>>
    /\ UNCHANGED <<isingVars, qaoaVars, reportVars, blockVars>>

IndexPermutations(n) == {p \in [1..n -> 1..n] : \A a, b \in 1..n : p[a] = p[b] => a = b}

\* the caller reorders both lists by the same permutation
Reorder ==
    /\ pcL = "reorder"
    /\ \E p \in IndexPermutations(Len(lossTerms)) :
        /\ lossTerms' = [k \in 1..Len(lossTerms) |-> lossTerms[p[k]]]
        /\ lossWeights' = [k \in 1..Len(lossWeights) |-> lossWeights[p[k]]]
    /\ pcL' = "second"
    /\ UNCHANGED <<lossC, lossArgs0, lossLog, lossQueries>>
    /\ UNCHANGED <<isingVars, qaoaVars, reportVars, blockVars>>

\* (spec SpecLoss) a caller evaluates Ising_loss, reorders the terms and the
\* weights alike, and evaluates it again
InitLoss ==
    /\ \E n \in 1..MaxLossQubits : \E len \in 0..MaxTerms :
        /\ lossC \in LossCircuits(n)
        /\ lossTerms \in [1..len -> LossTermSet(n)]
        /\ lossWeights \in [1..len -> WVals]
    /\ lossArgs0 = [c |-> lossC, pauli_terms |-> lossTerms, weights |-> lossWeights]
    /\ lossLog = <<>>
    /\ lossQueries = <<>>
    /\ pcL = "first"
    /\ IdleIsing /\ IdleQaoa /\ IdleReport /\ IdleBlock

NextLoss == Ising_loss \/ Reorder

SpecLoss == InitLoss /\ [][NextLoss]_vars

(***************************************************************************)
(* C10: Ising_loss on the terms and weights both reordered by a            *)
(* permutation returns what it returned on the original lists; a call      *)
(* makes exactly one expectation query per term, on the term's marked      *)
(* qubits, and leaves the circuit, the terms and the weights as they are   *)
(* (the lists are those the caller passed, up to the caller's reordering). *)
(***************************************************************************)
SameBag(s, t) ==
    /\ Len(s) = Len(t)
    /\ \A k \in 1..Len(s) :
        Cardinality({a \in 1..Len(s) : s[a] = s[k]})
            = Cardinality({a \in 1..Len(t) : t[a] = s[k]})

PairsOf(terms, weights) == [k \in 1..Len(terms) |-> <<terms[k], weights[k]>>]

C10_LossPermutationInvariant ==
    /\ \A a, b \in 1..Len(lossLog) : lossLog[a] = lossLog[b]
    /\ pcL \in {"reorder", "second", "done"} =>
        /\ lossC = lossArgs0.c
        /\ Len(lossTerms) = Len(lossWeights)
        /\ SameBag(PairsOf(lossTerms, lossWeights),
                   PairsOf(lossArgs0.pauli_terms, lossArgs0.weights))
    /\ pcL \in {"reorder", "done"} =>
        /\ Len(lossQueries) = Len(lossTerms)
        /\ \A k \in 1..Len(lossTerms) :
            {q + 1 : q \in {lossQueries[k][a] : a \in 1..Len(lossQueries[k])}}
                = {l \in 1..Len(lossTerms[k]) : lossTerms[k][l] = 1}

C10_Witness ==
    /\ pcL = "done"
    /\ Len(lossLog) = 2
    /\ lossLog[1] # 0
    /\ Len(lossTerms) = 2
    /\ lossTerms # lossArgs0.pauli_terms
    /\ lossWeights # lossArgs0.weights
    /\ ExpectationPs(lossC, QueryOf(lossTerms[1]))
         # ExpectationPs(lossC, QueryOf(lossTerms[2]))

(***************************************************************************)
(* QUBO_QAOA                                                               *)
(*                                                                         *)
(* The backend K (value_and_grad, jit, the optimizer) and the ansatz are   *)
(* external.  The loss an evaluation returns is any value of LossVals; a   *)
(* parameter tensor is known by its shape and by the number of optimizer   *)
(* updates that produced it from the initial sample.                       *)
(***************************************************************************)
MaxIterations == 201
MaxLayers == 2
LossVals == {0, 1}
PrintEvery == 100
DefaultNCircuits == 10

MissingBackendMessage ==
    [kind |-> "message", text |-> "select a backend and assign it to K."]

\* the matrices QUBO_QAOA is called on: a symmetric square one, and one
\* that is not square
QaoaMatrices == {<<<<1, 2>>, <<2, 3>>>>, <<<<1, 2, 3>>, <<2, 3, 4>>>>}

\* K.implicit_randn(shape=[2 * nlayers]) or, with vvag, [ncircuits, 2 * nlayers]
InitialParams(args) ==
    [shape |-> IF args.vvag THEN <<args.ncircuits, 2 * args.nlayers>>
               ELSE <<2 * args.nlayers>>,
     updates |-> 0]

\* opt.update(grads, params)
OptUpdate(params) == [params EXCEPT !.updates = @ + 1]

\* i % 100 == 0
PrintsLoss(i) == i % PrintEvery = 0

\* range(iterations): whether the loop body runs for i
LoopStopsOnZeroLoss(i, iterations, lastLoss) == i < iterations /\ lastLoss # 0
LoopContinues(i, iterations, lastLoss) == i < iterations

\* lines 145-165: the backend check, the conversion, the set-up of the loop
QUBO_QAOA_Setup ==
    /\ pcQ = "start"
    /\ qaOut' = IF kBound THEN qaOut ELSE Append(qaOut, MissingBackendMessage)
    /\ pcI' = "done"
    /\ IF NotSquare(Q)
       THEN /\ isingErr' = "ValueError"
            /\ qaErr' = "ValueError"
            /\ pcQ' = "raised"
            /\ UNCHANGED <<isingRet, qaParams>>
       ELSE /\ isingRet' = IsingOf(Q)
            /\ isingErr' = isingErr
            /\ IF kBound
               THEN /\ qaParams' = InitialParams(qaArgs)
                    /\ pcQ' = "loop"
                    /\ qaErr' = qaErr
               ELSE /\ qaErr' = "NameError"
                    /\ pcQ' = "raised"
                    /\ qaParams' = qaParams
    /\ UNCHANGED <<Q, kBound, qaArgs, qaI, qaOpt, qaEvals, qaRet>>
    /\ UNCHANGED <<lossVars, reportVars, blockVars>>

\* lines 167-175: one iteration of the loop
QUBO_QAOA_Iteration ==
    /\ pcQ = "loop"
    /\ LoopContinues(qaI, qaArgs.iterations, qaOpt.lastLoss)
    /\ \E loss \in LossVals :
        /\ qaEvals' = qaEvals + 1
        /\ qaParams' = OptUpdate(qaParams)
        /\ qaOpt' = [updates |-> qaOpt.updates + 1,
                     last |-> OptUpdate(qaParams),
                     lastLoss |-> loss]
        /\ qaOut' = IF PrintsLoss(qaI)
                    THEN Append(qaOut, [kind |-> "loss", loss |-> loss, step |-> qaI])
                    ELSE qaOut
    /\ qaI' = qaI + 1
    /\ UNCHANGED <<isingVars, kBound, qaArgs, pcQ, qaErr, qaRet>>
    /\ UNCHANGED <<lossVars, reportVars, blockVars>>

\* line 177
QUBO_QAOA_Return ==
    /\ pcQ = "loop"
    /\ ~LoopContinues(qaI, qaArgs.iterations, qaOpt.lastLoss)
    /\ qaRet' = qaParams
    /\ pcQ' = "returned"
    /\ UNCHANGED <<isingVars, kBound, qaArgs, qaI, qaParams, qaOpt, qaEvals, qaOut, qaErr>>
    /\ UNCHANGED <<lossVars, reportVars, blockVars>>

\* (spec SpecQAOA) one call of QUBO_QAOA, with or without a backend bound to K
InitQAOA ==
    /\ kBound \in BOOLEAN
    /\ Q \in QaoaMatrices
    /\ pcI = "call"
    /\ isingRet = NoResult
    /\ isingErr = NoError
    /\ qaArgs \in [nlayers : 1..MaxLayers, iterations : 0..MaxIterations,
                   vvag : BOOLEAN, ncircuits : {DefaultNCircuits}]
    /\ pcQ = "start"
    /\ qaI = 0
    /\ qaParams = <<>>
    /\ qaOpt = [updates |-> 0, last |-> <<>>, lastLoss |-> 1]
    /\ qaEvals = 0
    /\ qaOut = <<>>
    /\ qaErr = NoError
    /\ qaRet = <<>>
    /\ IdleLoss /\ IdleReport /\ IdleBlock

NextQAOA == QUBO_QAOA_Setup \/ QUBO_QAOA_Iteration \/ QUBO_QAOA_Return

SpecQAOA == InitQAOA /\ [][NextQAOA]_vars

LossLines(out) == SelectSeq(out, LAMBDA e : e.kind = "loss")

(***************************************************************************)
(* C7: with a backend selected QUBO_QAOA makes exactly `iterations`        *)
(* evaluate-then-update steps, whatever the losses are, and returns the    *)
(* parameters of the last update (the initial ones when iterations = 0);   *)
(* the loss is printed exactly at the steps i with i % 100 = 0.            *)
(***************************************************************************)
C7_RunsExactlyIterations ==
    (kBound /\ pcQ \in {"loop", "returned"}) =>
        /\ qaI <= qaArgs.iterations
        /\ qaEvals = qaI /\ qaOpt.updates = qaI
        /\ qaParams.updates = qaI
        /\ LET lines == LossLines(qaOut) IN
            /\ Len(lines) = Cardinality({i \in 0..(qaI - 1) : i % 100 = 0})
            /\ \A k \in 1..Len(lines) : lines[k].step = 100 * (k - 1)
        /\ pcQ = "returned" =>
            /\ qaI = qaArgs.iterations
            /\ qaRet.updates = qaArgs.iterations
            /\ qaRet.shape = IF qaArgs.vvag
                             THEN <<qaArgs.ncircuits, 2 * qaArgs.nlayers>>
                             ELSE <<2 * qaArgs.nlayers>>
            /\ qaArgs.iterations > 0 => qaRet = qaOpt.last

C7_Witness ==
    /\ kBound /\ pcQ = "returned"
    /\ qaArgs.iterations = 201
    /\ Len(LossLines(qaOut)) = 3
    /\ LossLines(qaOut)[2].loss = 0
    /\ qaRet.updates = 201

(***************************************************************************)
(* C3: called with no backend bound to K, QUBO_QAOA reports the missing    *)
(* backend and computes nothing: no Ising conversion, no optimizer step,   *)
(* no evaluation and no loss line follow the detection.                    *)
(***************************************************************************)
C3_MissingBackendNoComputation ==
    (~kBound /\ pcQ \notin {"start", Idle}) =>
        /\ \E k \in 1..Len(qaOut) : qaOut[k].kind = "message"
        /\ pcI = "call" /\ isingRet = NoResult /\ isingErr = NoError
        /\ qaEvals = 0 /\ qaOpt.updates = 0
        /\ LossLines(qaOut) = <<>>
        /\ rpProbCalls = 0

(***************************************************************************)
(* The result reports: print_result_prob, print_result_cost, print_Q_cost  *)
(*                                                                         *)
(* A basis-state string is a sequence of the characters "0" and "1".       *)
(* Probabilities are held in units of 1e-5 before rounding and of 1e-4     *)
(* after it.  A printed line is a record; a table row holds the state      *)
(* string and the value printed next to it.                                *)
(***************************************************************************)
MaxQubits == 3
ProbTotal == 100000
CostQVals == {-1, 2}

RECURSIVE Pow2(_)
Pow2(n) == IF n = 0 THEN 1 ELSE 2 * Pow2(n - 1)

Reverse(s) == [k \in 1..Len(s) |-> s[Len(s) + 1 - k]]

\* bin(i)[2:]
RECURSIVE BinDigits(_)
BinDigits(i) ==
    IF i < 2 THEN <<IF i = 1 THEN "1" ELSE "0">>
    ELSE BinDigits(i \div 2) \o <<IF i % 2 = 1 THEN "1" ELSE "0">>

\* f"{s:0>{width}}"
RECURSIVE PadLeft(_, _)
PadLeft(str, width) ==
    IF Len(str) >= width THEN str ELSE PadLeft(<<"0">> \o str, width)

\* for i in range(2**n_qubits): states.append(f"{bin(i)[2:]:0>{n_qubits}}")
StateStrings(n) == [k \in 1..Pow2(n) |-> PadLeft(BinDigits(k - 1), n)]

\* int(bit)
IntOfBit(ch) == IF ch = "1" THEN 1 ELSE 0
\* x = np.array([int(bit) for bit in selection])
BitsOf(selection) == [l \in 1..Len(selection) |-> IntOfBit(selection[l])]

\* ndarray.round(decimals=4): to the nearest multiple of 1e-4, halves to even
Round4(raw) ==
    LET q == raw \div 10
        r == raw % 10
    IN IF r < 5 THEN q
       ELSE IF r > 5 THEN q + 1
       ELSE IF q % 2 = 0 THEN q ELSE q + 1

\* K.numpy(c.probability()).round(decimals=4)
RoundedProbs(c) == [k \in 1..Len(c.probability) |-> Round4(c.probability[k])]

\* np.argsort(a), default kind: the indices (Python, from 0) in an order that
\* makes a non-decreasing; the order among equal entries is not specified,
\* so every such order is an outcome.
RECURSIVE ArgsortFrom(_, _)
ArgsortFrom(S, a) ==
    IF S = {} THEN {<<>>}
    ELSE LET least == {i \in S : \A j \in S : a[i + 1] <= a[j + 1]}
         IN UNION {{<<i>> \o rest : rest \in ArgsortFrom(S \ {i}, a)} : i \in least}
Argsort(a) == ArgsortFrom(0..(Len(a) - 1), a)

\* sorted_indices = np.argsort(probs)[::-1]; if reverse: sorted_indices[::-1]
SortedIndicesAscendingFirst(order, reverse) ==
    IF reverse THEN Reverse(order) ELSE order
SortedIndices(order, reverse) ==
    IF reverse THEN Reverse(Reverse(order)) ELSE Reverse(order)

Rule == [kind |-> "rule"]
Header == [kind |-> "header"]
Ellipsis == [kind |-> "ellipsis"]
Row(state, value) == [kind |-> "row", state |-> state, value |-> value]

\* array[i] for a Python index i that may be negative
PyIndex(len, i) == IF i < 0 THEN len + i ELSE i
InRange(len, i) == PyIndex(len, i) >= 0 /\ PyIndex(len, i) < len

ProbRow(states, probs, sorted, i) ==
    LET at == sorted[PyIndex(Len(sorted), i) + 1]
    IN Row(states[at + 1], probs[at + 1])

\* for i in range(lo, hi): print(state_sorted[i], prob_sorted[i]); the lines
\* printed, up to the first index out of range
RECURSIVE ProbRows(_, _, _, _, _)
ProbRows(states, probs, sorted, lo, hi) ==
    IF lo >= hi \/ ~InRange(Len(sorted), lo) THEN <<>>
    ELSE <<ProbRow(states, probs, sorted, lo)>>
         \o ProbRows(states, probs, sorted, lo + 1, hi)

\* whether range(lo, hi) indexes out of range
RowsFail(len, lo, hi) == \E i \in lo..(hi - 1) : ~InRange(len, i)

\* lines 211-224 of print_result_prob: [out, err]
ProbTable(states, probs, sorted, wrap) ==
    LET len == Len(sorted)
        head == <<Rule, Header, Rule>>
    IN IF ~wrap
       THEN [out |-> head \o ProbRows(states, probs, sorted, 0, Len(states)) \o <<Rule>>,
             err |-> NoError]
       ELSE IF RowsFail(len, 0, 4)
       THEN [out |-> head \o ProbRows(states, probs, sorted, 0, 4),
             err |-> "IndexError"]
       ELSE [out |-> head \o ProbRows(states, probs, sorted, 0, 4) \o <<Ellipsis>>
                     \o ProbRows(states, probs, sorted, -4, -1) \o <<Rule>>,
             err |-> NoError]

print_result_prob ==
    /\ pcR = "call" /\ rpFn = "print_result_prob"
    /\ pcR' = "done"
    /\ IF ~kBound
       THEN \* the message, then NameError at K.numpy, before c.probability()
            /\ rpOut' = <<MissingBackendMessage>>
            /\ rpErr' = "NameError"
            /\ UNCHANGED <<rpSorted, rpProbCalls>>
       ELSE \E order \in Argsort(RoundedProbs(rpC)) :
            LET states == StateStrings(rpC.nqubits)
                probs == RoundedProbs(rpC)
                sorted == SortedIndices(order, rpFlags.reverse)
                table == ProbTable(states, probs, sorted, rpFlags.wrap)
            IN /\ rpProbCalls' = rpProbCalls + 1
               /\ rpSorted' = sorted
               /\ rpOut' = table.out
               /\ rpErr' = table.err
    /\ UNCHANGED <<kBound, rpFn, rpC, rpQ, rpFlags>>
    /\ UNCHANGED <<isingVars, lossVars, qaoaLocals, blockVars>>

\* sorted(items, key=lambda item: item[1]): stable, ascending
RECURSIVE InsertAsc(_, _)
InsertAsc(done, item) ==
    IF done = <<>> THEN <<item>>
    ELSE IF done[Len(done)].cost <= item.cost THEN Append(done, item)
    ELSE Append(InsertAsc(SubSeq(done, 1, Len(done) - 1), item), done[Len(done)])

\* sorted(items, key=..., reverse=True): stable, descending
RECURSIVE InsertDesc(_, _)
InsertDesc(done, item) ==
    IF done = <<>> THEN <<item>>
    ELSE IF done[Len(done)].cost >= item.cost THEN Append(done, item)
    ELSE Append(InsertDesc(SubSeq(done, 1, Len(done) - 1), item), done[Len(done)])

RECURSIVE SortedItems(_, _, _)
SortedItems(items, k, reverse) ==
    IF k = 0 THEN <<>>
    ELSE IF reverse THEN InsertDesc(SortedItems(items, k - 1, reverse), items[k])
    ELSE InsertAsc(SortedItems(items, k - 1, reverse), items[k])

\* cost_dict[selection] = np.dot(x, np.dot(Q, x)), in the order of states
CostItems(n, M) ==
    LET states == StateStrings(n)
    IN [k \in 1..Len(states) |->
           [state |-> states[k], cost |-> QuadForm(M, BitsOf(states[k]))]]

\* cost_sorted
CostSorted(n, M, reverse) == SortedItems(CostItems(n, M), Pow2(n), reverse)

\* for k, v in cost_sorted.items(): print; num += 1; if (num >= 8) & wrap: break
CostTable(sorted, wrap) ==
    LET shown == IF wrap /\ Len(sorted) > 8 THEN 8 ELSE Len(sorted)
    IN <<Rule, Header, Rule>>
       \o [k \in 1..shown |-> Row(sorted[k].state, sorted[k].cost)]
       \o <<Rule>>

print_result_cost ==
    /\ pcR = "call" /\ rpFn = "print_result_cost"
    /\ pcR' = "done"
    /\ rpSorted' = CostSorted(rpC.nqubits, rpQ, rpFlags.reverse)
    /\ rpOut' = CostTable(CostSorted(rpC.nqubits, rpQ, rpFlags.reverse), rpFlags.wrap)
    /\ UNCHANGED <<kBound, rpFn, rpC, rpQ, rpFlags, rpErr, rpProbCalls>>
    /\ UNCHANGED <<isingVars, lossVars, qaoaLocals, blockVars>>

print_Q_cost ==
    /\ pcR = "call" /\ rpFn = "print_Q_cost"
    /\ pcR' = "done"
    /\ rpSorted' = CostSorted(Len(rpQ), rpQ, rpFlags.reverse)
    /\ rpOut' = CostTable(CostSorted(Len(rpQ), rpQ, rpFlags.reverse), rpFlags.wrap)
    /\ UNCHANGED <<kBound, rpFn, rpC, rpQ, rpFlags, rpErr, rpProbCalls>>
    /\ UNCHANGED <<isingVars, lossVars, qaoaLocals, blockVars>>

(***************************************************************************)
(* The circuits reported on.  c.probability() is any vector of 2^n         *)
(* non-negative numbers of sum 1; the vectors drawn have one dominant      *)
(* state d and a tail: the state i # d has the probability                 *)
(* step * (((mult * i) % 2^n) \div group), so that with group = 2 pairs of *)
(* states have equal probabilities, and with step = 5 (half of 1e-4)       *)
(* unequal probabilities round to equal ones.                              *)
(***************************************************************************)
TailProfiles == {[step |-> 5, group |-> 1], [step |-> 10, group |-> 2],
                 [step |-> 10, group |-> 1]}
TailMults == {1, 3}

TailProb(n, i, mult, prof) == prof.step * (((mult * i) % Pow2(n)) \div prof.group)

ReportCircuit(n, d, mult, prof) ==
    LET tail == [k \in 1..Pow2(n) |-> IF k - 1 = d THEN 0 ELSE TailProb(n, k - 1, mult, prof)]
    IN [nqubits |-> n,
        probability |-> [k \in 1..Pow2(n) |->
                            IF k - 1 = d THEN ProbTotal - SumSeq(tail) ELSE tail[k]]]

\* (spec SpecReport) one call of one of the three report functions
InitReport ==
    /\ rpFlags \in [wrap : BOOLEAN, reverse : BOOLEAN]
    /\ \E n \in 1..MaxQubits :
        \/ /\ rpFn = "print_result_prob"
           /\ kBound \in BOOLEAN
           /\ \E d \in 0..(Pow2(n) - 1) : \E mult \in TailMults : \E prof \in TailProfiles :
                rpC = ReportCircuit(n, d, mult, prof)
           /\ rpQ = <<>>
        \/ /\ rpFn = "print_result_cost"
           /\ kBound = TRUE
           /\ rpC = [nqubits |-> n]
           /\ \E u \in [UpperPairs(n) -> CostQVals] : rpQ = SymmetricQ(n, u)
        \/ /\ rpFn = "print_Q_cost"
           /\ kBound = TRUE
           /\ rpC = <<>>
           /\ \E u \in [UpperPairs(n) -> CostQVals] : rpQ = SymmetricQ(n, u)
    /\ rpSorted = <<>>
    /\ rpOut = <<>>
    /\ rpErr = NoError
    /\ rpProbCalls = 0
    /\ pcR = "call"
    /\ IdleIsing /\ IdleLoss /\ IdleBlock
    /\ qaArgs = <<>> /\ pcQ = Idle /\ qaI = 0 /\ qaParams = <<>>
    /\ qaOpt = <<>> /\ qaEvals = 0 /\ qaOut = <<>> /\ qaErr = Idle /\ qaRet = <<>>

NextReport == print_result_prob \/ print_result_cost \/ print_Q_cost

SpecReport == InitReport /\ [][NextReport]_vars

\* the table rows among the printed lines
TableRows(out) == SelectSeq(out, LAMBDA e : e.kind = "row")

\* the integer a string of binary digits denotes
RECURSIVE StrValue(_)
StrValue(str) ==
    IF str = <<>> THEN 0
    ELSE 2 * StrValue(SubSeq(str, 1, Len(str) - 1))
         + (IF str[Len(str)] = "1" THEN 1 ELSE 0)

ReportDone(fn) == pcR = "done" /\ rpFn = fn

(***************************************************************************)
(* C8: print_result_prob with wrap=False prints each of the 2^n            *)
(* zero-padded n-bit strings exactly once, each next to its own            *)
(* probability rounded to 4 decimals, in non-increasing order of           *)
(* probability when reverse=False and non-decreasing when reverse=True.    *)
(***************************************************************************)
C8_ProbReportSortedComplete ==
    (ReportDone("print_result_prob") /\ kBound /\ ~rpFlags.wrap) =>
        LET rows == TableRows(rpOut)
            n == rpC.nqubits
        IN /\ rpErr = NoError
           /\ Len(rows) = Len(rpC.probability)
           /\ \A x \in [1..n -> {"0", "1"}] :
                Cardinality({k \in 1..Len(rows) : rows[k].state = x}) = 1
           /\ \A k \in 1..Len(rows) :
                LET raw == rpC.probability[StrValue(rows[k].state) + 1]
                IN (10 * rows[k].value - raw) \in -5..5
           /\ \A k \in 1..(Len(rows) - 1) :
                IF rpFlags.reverse
                THEN rows[k].value <= rows[k + 1].value
                ELSE rows[k].value >= rows[k + 1].value

C8_Witness ==
    /\ ReportDone("print_result_prob") /\ kBound /\ ~rpFlags.wrap
    /\ ~rpFlags.reverse
    /\ rpC.nqubits = 3
    /\ LET rows == TableRows(rpOut)
       IN /\ Len(rows) = 8
          /\ rows[1].value > rows[2].value
          /\ rows[1].state # <<"0", "0", "0">>
          /\ \E k \in 1..7 :
                /\ rows[k].value = rows[k + 1].value
                /\ rpC.probability[StrValue(rows[k].state) + 1]
                     # rpC.probability[StrValue(rows[k + 1].state) + 1]

(***************************************************************************)
(* C4: print_result_prob with wrap=True, on a circuit with at least 8      *)
(* basis states, prints exactly 8 rows: the first 4 and the last 4 of the  *)
(* sorted list, with one ellipsis line between them.                       *)
(***************************************************************************)
C4_WrapShowsTopAndBottomFour ==
    (ReportDone("print_result_prob") /\ kBound /\ rpFlags.wrap
        /\ Len(rpC.probability) >= 8) =>
        LET rows == TableRows(rpOut)
            len == Len(rpSorted)
            at(k) == IF k <= 4 THEN rpSorted[k] ELSE rpSorted[len - 8 + k]
        IN /\ rpErr = NoError
           /\ Len(rows) = 8
           /\ \A k \in 1..Len(rows) :
                StrValue(rows[k].state) = at(k)
           /\ Cardinality({k \in 1..Len(rpOut) : rpOut[k].kind = "ellipsis"}) = 1
           /\ rpOut[8].kind = "ellipsis"

(***************************************************************************)
(* C5: in the probability report and in both cost reports, for either      *)
(* value of reverse, two states of equal (rounded) probability or equal    *)
(* cost are printed in enumeration order: the smaller integer first.       *)
(***************************************************************************)
TiesInEnumerationOrder ==
    LET rows == TableRows(rpOut)
    IN \A a, b \in 1..Len(rows) :
        (a < b /\ rows[a].value = rows[b].value /\ rows[a].state # rows[b].state)
            => StrValue(rows[a].state) < StrValue(rows[b].state)

C5_TiesPrintedInStateOrder ==
    (pcR = "done" /\ rpErr = NoError /\ ~rpFlags.wrap) => TiesInEnumerationOrder

\* the part of C5 about the cost reports alone
CostTiesPrintedInStateOrder ==
    (pcR = "done" /\ rpFn \in {"print_result_cost", "print_Q_cost"})
        => TiesInEnumerationOrder

(***************************************************************************)
(* QAOA_block (tensorcircuit/templates/blocks.py)                          *)
(*                                                                         *)
(* A circuit object is an identity in blkHeap with the sequence of gates   *)
(* applied to it.  A tensor is a scalar (dims = 0) or a vector (dims = 1)  *)
(* with its entries in data.  The graph g gives g.edges and g.nodes as     *)
(* sequences, in the order the graph iterates them.                        *)
(***************************************************************************)
MaxNodes == 3
MaxEdges == 2
AngleBases == {0, 10}

Scalar(v) == [dims |-> 0, data |-> <<v>>]
Vector(vs) == [dims |-> 1, data |-> vs]

\* backend.sizen(t)
Sizen(t) == Len(t.data)

\* t[i]
Index(t, i) == Scalar(t.data[i + 1])

\* c.exp1(e1, e2, unitary=G._zz_matrix, theta=theta, **kws)
Exp1ZZ(e, theta) == [gate |-> "exp1_zz", qubits |-> e, theta |-> theta]
\* c.rx(n, theta=theta)
Rx(n, theta) == [gate |-> "rx", qubits |-> <<n>>, theta |-> theta]

\* the theta of the i-th gate (i from 0): the parameter itself when its
\* size is 1, else its entry i
ThetaFirstEntry(param, i) == IF Sizen(param) = 1 THEN param ELSE Index(param, 0)
Theta(param, i) == IF Sizen(param) = 1 THEN param ELSE Index(param, i)

\* lines 49-56: for e1, e2 in g.edges: c.exp1(...)
EdgeGates(g, paramzz) ==
    [k \in 1..Len(g.edges) |-> Exp1ZZ(g.edges[k], Theta(paramzz, k - 1))]

\* lines 58-65: for n in g.nodes: c.rx(...)
NodeGates(g, paramx) ==
    [k \in 1..Len(g.nodes) |-> Rx(g.nodes[k], Theta(paramx, k - 1))]

\* the gates the call appends to c, in order
BlockGates(g, paramzz, paramx) == EdgeGates(g, paramzz) \o NodeGates(g, paramx)

QAOA_block ==
    /\ pcB = "call"
    /\ pcB' = "done"
    /\ blkHeap' = [blkHeap EXCEPT ![blkArgs.c] =
                      @ \o BlockGates(blkArgs.g, blkArgs.paramzz, blkArgs.paramx)]
    /\ blkRet' = blkArgs.c
    /\ UNCHANGED <<blkArgs, blkBefore>>
    /\ UNCHANGED <<isingVars, lossVars, qaoaVars, reportVars>>

\* the tensors passed as angles: a scalar, or a vector of distinct entries;
\* of size 1, or with an entry for each of the `count` gates at least
AngleTensors(count, maxLen) ==
    {Scalar(b + 1) : b \in AngleBases}
    \cup {Vector([k \in 1..len |-> b + k]) :
            b \in AngleBases, len \in {l \in 1..maxLen : l = 1 \/ l >= count}}

\* sequences of distinct edges (a, b), a < b, among the nodes 0..n-1
RECURSIVE EdgeLists(_, _)
EdgeLists(n, len) ==
    IF len = 0 THEN {<<>>}
    ELSE {Append(es, e) :
            es \in EdgeLists(n, len - 1),
            e \in {p \in (0..(n - 1)) \X (0..(n - 1)) : p[1] < p[2]}}

Distinct(s) == \A a, b \in 1..Len(s) : s[a] = s[b] => a = b

\* (spec SpecBlock) one call of QAOA_block on a circuit that holds some gates
InitBlock ==
    /\ \E n \in 1..MaxNodes : \E len \in 0..MaxEdges :
       \E es \in EdgeLists(n, len) : \E ascending \in BOOLEAN :
        /\ Distinct(es)
        /\ \E pzz \in AngleTensors(len, MaxEdges + 1) :
           \E px \in AngleTensors(n, MaxNodes + 1) :
            blkArgs = [c |-> 1,
                       g |-> [nodes |-> [k \in 1..n |->
                                            IF ascending THEN k - 1 ELSE n - k],
                              edges |-> es],
                       paramzz |-> pzz,
                       paramx |-> px]
    /\ blkBefore \in {<<>>, <<[gate |-> "h", qubits |-> <<0>>, theta |-> Scalar(0)]>>}
    /\ blkHeap = <<blkBefore>>
    /\ blkRet = 0
    /\ pcB = "call"
    /\ IdleIsing /\ IdleLoss /\ IdleQaoa /\ IdleReport

NextBlock == QAOA_block

SpecBlock == InitBlock /\ [][NextBlock]_vars

(***************************************************************************)
(* C9: QAOA_block appends one ZZ rotation per edge, in edge order, then    *)
(* one X rotation per node, in node order, to the circuit it was given,    *)
(* and returns that same circuit; a parameter of one element gives its     *)
(* value to every gate, otherwise the i-th gate takes entry i.             *)
(***************************************************************************)
AngleOf(param, i) ==
    IF Len(param.data) = 1 THEN param.data[1] ELSE param.data[i]

C9_BlockAppendsEdgesThenNodes ==
    pcB = "done" =>
        LET gates == blkHeap[blkArgs.c]
            ne == Len(blkArgs.g.edges)
            nn == Len(blkArgs.g.nodes)
            pre == Len(blkBefore)
        IN /\ blkRet = blkArgs.c
           /\ DOMAIN blkHeap = {blkArgs.c}
           /\ Len(gates) = pre + ne + nn
           /\ SubSeq(gates, 1, pre) = blkBefore
           /\ \A i \in 1..ne :
                /\ gates[pre + i].gate = "exp1_zz"
                /\ gates[pre + i].qubits = blkArgs.g.edges[i]
                /\ gates[pre + i].theta.data = <<AngleOf(blkArgs.paramzz, i)>>
           /\ \A i \in 1..nn :
                /\ gates[pre + ne + i].gate = "rx"
                /\ gates[pre + ne + i].qubits = <<blkArgs.g.nodes[i]>>
                /\ gates[pre + ne + i].theta.data = <<AngleOf(blkArgs.paramx, i)>>

C9_Witness ==
    /\ pcB = "done"
    /\ Len(blkArgs.g.edges) = 2 /\ Len(blkArgs.g.nodes) = 3
    /\ Len(blkArgs.paramzz.data) = 2
    /\ Len(blkArgs.paramx.data) = 1
    /\ blkBefore # <<>>
    /\ Len(blkHeap[1]) = 6
    /\ blkHeap[1][2].theta # blkHeap[1][3].theta
    /\ blkHeap[1][4].theta = blkHeap[1][6].theta

=============================================================================
